---- MODULE Spec2Model ----
(***************************************************************************)
(* VCS context resolution of starship: src/context/jj.rs (closest          *)
(* bookmarks of a Jujutsu workspace) and src/context/git.rs (Repo and      *)
(* exec_git).                                                              *)
(*                                                                         *)
(* Text is modelled character by character: a string is a sequence of     *)
(* one-character strings.  The control characters \x1f, \x1e, \n and \r    *)
(* are the characters US, RS, NL and CR below.                             *)
(***************************************************************************)
EXTENDS Integers, Sequences, FiniteSets, TLC

\* ------------------------------------------------------------------------
\* Characters
\* ------------------------------------------------------------------------
US == "US"
RS == "RS"
NL == "NL"
CR == "CR"
SP == " "
Q  == "\""

Digits == <<"0", "1", "2", "3", "4", "5", "6", "7", "8", "9">>

IsDigit(c) == \E d \in 1..Len(Digits) : Digits[d] = c

DigitVal(c) == (CHOOSE d \in 1..Len(Digits) : Digits[d] = c) - 1

\* char::is_whitespace restricted to the alphabet (\x1e and \x1f are not
\* White_Space).
IsWhitespace(c) == c \in {SP, CR, NL}

\* The whitespace serde_json skips between tokens.
IsJsonWs(c) == c \in {SP, CR, NL}

\* Characters below 0x20, which serde_json rejects unescaped in a string.
IsControl(c) == c \in {US, RS, NL, CR}

\* ------------------------------------------------------------------------
\* std string operations
\* ------------------------------------------------------------------------
RECURSIVE Join(_, _)
\* [T]::join / the template language's .join(sep)
Join(parts, sep) ==
    IF Len(parts) = 0 THEN << >>
    ELSE IF Len(parts) = 1 THEN parts[1]
    ELSE parts[1] \o <<sep>> \o Join(Tail(parts), sep)

Max(a, b) == IF a >= b THEN a ELSE b

Min(S) == CHOOSE x \in S : \A y \in S : x <= y

\* The position of the k-th separator, P the set of separator positions.
KthSep(P, k) == CHOOSE i \in P : Cardinality({j \in P : j < i}) = k - 1

\* str::split(sep): n separators give n + 1 fields, "" gives one empty field.
Split(s, sep) ==
    LET P == {i \in 1..Len(s) : s[i] = sep}
        n == Cardinality(P)
    IN  [k \in 1..(n + 1) |->
            SubSeq(s,
                   IF k = 1 THEN 1 ELSE KthSep(P, k - 1) + 1,
                   IF k = n + 1 THEN Len(s) ELSE KthSep(P, k) - 1)]

\* F applied to the value of v, v evaluated once.
Force(v, F(_)) == CHOOSE r \in {F(x) : x \in {v}} : TRUE

StripCR(l) ==
    IF Len(l) > 0 /\ l[Len(l)] = CR THEN SubSeq(l, 1, Len(l) - 1) ELSE l

\* The lines of a text already split on \n: a final empty piece is no line,
\* and a line that \n ended loses one trailing \r.
LinesOf(parts) ==
    [i \in 1..(IF parts[Len(parts)] = << >> THEN Len(parts) - 1 ELSE Len(parts)) |->
        IF i < Len(parts) THEN StripCR(parts[i]) ELSE parts[i]]

\* str::lines()
Lines(s) == Force(Split(s, NL), LAMBDA parts : LinesOf(parts))

\* entry.trim().is_empty()
TrimIsEmpty(s) == \A i \in 1..Len(s) : IsWhitespace(s[i])

RECURSIVE FormatNat(_)
\* Decimal rendering of a count (the template's integer output).
FormatNat(n) ==
    IF n < 10 THEN <<Digits[n + 1]>>
    ELSE FormatNat(n \div 10) \o <<Digits[(n % 10) + 1]>>

\* ------------------------------------------------------------------------
\* serde_json::from_str::<TrackedBookmarkOutput>
\* ------------------------------------------------------------------------
NameKey   == <<"n", "a", "m", "e">>
AheadKey  == <<"a", "h", "e", "a", "d">>
BehindKey == <<"b", "e", "h", "i", "n", "d">>

Fail == [ok |-> FALSE]

\* The first position at or after i that holds no whitespace.
SkipWs(s, i) ==
    Min({j \in i..Len(s) : ~IsJsonWs(s[j])} \cup {Max(i, Len(s) + 1)})

\* Index of the first quote at or after i, or 0.
CloseQuote(s, i) ==
    LET qs == {j \in i..Len(s) : s[j] = Q} IN IF qs = {} THEN 0 ELSE Min(qs)

\* A JSON string starting at i (no escapes in the alphabet).
ParseStr(s, i) ==
    IF ~(i <= Len(s) /\ s[i] = Q) THEN Fail
    ELSE LET j == CloseQuote(s, i + 1) IN
         IF j = 0 THEN Fail
         ELSE IF \E k \in (i + 1)..(j - 1) : IsControl(s[k]) THEN Fail
         ELSE [ok |-> TRUE, val |-> SubSeq(s, i + 1, j - 1), next |-> j + 1]

\* The first position at or after i that holds no digit.
DigitsEnd(s, i) ==
    Min({j \in i..Len(s) : ~IsDigit(s[j])} \cup {Max(i, Len(s) + 1)})

RECURSIVE DigitsValue(_, _, _)
DigitsValue(s, i, j) ==
    IF j < i THEN 0 ELSE DigitsValue(s, i, j - 1) * 10 + DigitVal(s[j])

\* A JSON number read as usize: digits only, no leading zero.
ParseNum(s, i) ==
    LET j == DigitsEnd(s, i) IN
    IF j = i THEN Fail
    ELSE IF s[i] = "0" /\ j > i + 1 THEN Fail
    ELSE [ok |-> TRUE, val |-> DigitsValue(s, i, j - 1), next |-> j]

\* The value of a field the struct does not have (IgnoredAny), scalars only.
ParseAny(s, i) ==
    IF i <= Len(s) /\ s[i] = Q THEN ParseStr(s, i) ELSE ParseNum(s, i)

NoFields ==
    [hasName |-> FALSE, name |-> << >>,
     hasAhead |-> FALSE, ahead |-> 0,
     hasBehind |-> FALSE, behind |-> 0]

\* The value of the field named key: a string for name, a usize for ahead
\* and behind, anything for a field the struct does not have.
ParseField(s, key, v) ==
    IF key = NameKey THEN ParseStr(s, v)
    ELSE IF key \in {AheadKey, BehindKey} THEN ParseNum(s, v)
    ELSE ParseAny(s, v)

SetField(acc, key, value) ==
    IF key = NameKey THEN [acc EXCEPT !.hasName = TRUE, !.name = value]
    ELSE IF key = AheadKey THEN [acc EXCEPT !.hasAhead = TRUE, !.ahead = value]
    ELSE IF key = BehindKey THEN [acc EXCEPT !.hasBehind = TRUE, !.behind = value]
    ELSE acc

IsDuplicate(acc, key) ==
    \/ (key = NameKey /\ acc.hasName)
    \/ (key = AheadKey /\ acc.hasAhead)
    \/ (key = BehindKey /\ acc.hasBehind)

RECURSIVE ParseMembers(_, _, _)
\* After a member: a comma and the next member, or the closing brace, where
\* a field still missing is an error.
MemberEnd(s, e, acc) ==
    IF e > Len(s) THEN Fail
    ELSE IF s[e] = "," THEN ParseMembers(s, SkipWs(s, e + 1), acc)
    ELSE IF s[e] = "}" THEN
         IF acc.hasName /\ acc.hasAhead /\ acc.hasBehind
         THEN [ok |-> TRUE, name |-> acc.name, ahead |-> acc.ahead,
               behind |-> acc.behind, next |-> e + 1]
         ELSE Fail
    ELSE Fail

MemberValue(s, key, val, acc) ==
    IF ~val.ok THEN Fail
    ELSE Force(SetField(acc, key, val.val),
               LAMBDA acc2 : Force(SkipWs(s, val.next),
                                   LAMBDA e : MemberEnd(s, e, acc2)))

MemberColon(s, k, c, acc) ==
    IF ~(c <= Len(s) /\ s[c] = ":") THEN Fail
    ELSE IF IsDuplicate(acc, k.val) THEN Fail
    ELSE Force(ParseField(s, k.val, SkipWs(s, c + 1)),
               LAMBDA val : MemberValue(s, k.val, val, acc))

MemberKey(s, k, acc) ==
    IF ~k.ok THEN Fail
    ELSE Force(SkipWs(s, k.next), LAMBDA c : MemberColon(s, k, c, acc))

\* The members of an object, i at the first character of a key.
ParseMembers(s, i, acc) ==
    Force(ParseStr(s, i), LAMBDA k : MemberKey(s, k, acc))

ArrayEnd(s, n, a, b) ==
    IF ~b.ok THEN Fail
    ELSE Force(SkipWs(s, b.next),
               LAMBDA e : IF e <= Len(s) /\ s[e] = "]"
                          THEN [ok |-> TRUE, name |-> n.val, ahead |-> a.val,
                                behind |-> b.val, next |-> e + 1]
                          ELSE Fail)

\* "," and a usize at or after position i.
CommaNum(s, i) ==
    Force(SkipWs(s, i),
          LAMBDA c : IF c <= Len(s) /\ s[c] = ","
                     THEN ParseNum(s, SkipWs(s, c + 1))
                     ELSE Fail)

ArrayBehind(s, n, a) ==
    IF ~a.ok THEN Fail
    ELSE Force(CommaNum(s, a.next), LAMBDA b : ArrayEnd(s, n, a, b))

ArrayAhead(s, n) ==
    IF ~n.ok THEN Fail
    ELSE Force(CommaNum(s, n.next), LAMBDA a : ArrayBehind(s, n, a))

\* The struct given as a JSON array: exactly [name, ahead, behind].
ParseArray(s, i) ==
    Force(ParseStr(s, SkipWs(s, i)), LAMBDA n : ArrayAhead(s, n))

ParseValue(entry, i) ==
    IF i > Len(entry) THEN Fail
    ELSE IF entry[i] = "{"
    THEN Force(SkipWs(entry, i + 1),
               LAMBDA j : IF j <= Len(entry) /\ entry[j] = "}" THEN Fail
                          ELSE ParseMembers(entry, j, NoFields))
    ELSE IF entry[i] = "[" THEN ParseArray(entry, i + 1)
    ELSE Fail

FromStrEnd(entry, r) ==
    IF ~r.ok THEN Fail
    ELSE IF SkipWs(entry, r.next) <= Len(entry) THEN Fail
    ELSE [ok |-> TRUE, name |-> r.name, ahead |-> r.ahead, behind |-> r.behind]

\* serde_json::from_str::<TrackedBookmarkOutput>(entry): the value, then
\* nothing but whitespace.
FromStr(entry) ==
    Force(ParseValue(entry, SkipWs(entry, 1)), LAMBDA r : FromStrEnd(entry, r))

\* ------------------------------------------------------------------------
\* jj.rs: parse_tracked_bookmarks
\* ------------------------------------------------------------------------
EmptyMap == [n \in {} |-> <<0, 0>>]

\* Mutant of MergeCounts: the later record overwrites the earlier one.
MergeCountsLast(existing, counts) == counts

\* and_modify: existing.0 = existing.0.max(counts.0), the same for .1
MergeCounts(existing, counts) ==
    <<Max(existing[1], counts[1]), Max(existing[2], counts[2])>>

\* map.entry(name).and_modify(..).or_insert(counts)
InsertTracked(map, name, counts) ==
    IF name \in DOMAIN map
    THEN [map EXCEPT ![name] = MergeCounts(@, counts)]
    ELSE [n \in DOMAIN map \cup {name} |->
            IF n = name THEN counts ELSE map[n]]

RECURSIVE FoldTracked(_, _)
\* .fold(HashMap::new(), ..) over the decoded entries, in order
FoldTracked(entries, map) ==
    IF entries = << >> THEN map
    ELSE FoldTracked(Tail(entries),
                     InsertTracked(map, Head(entries).name,
                                   <<Head(entries).ahead, Head(entries).behind>>))

RECURSIVE DecodeEntriesAbort(_)
\* Mutant of DecodeEntries: decoding stops at the first entry that fails.
DecodeEntriesAbort(entries) ==
    IF entries = << >> THEN << >>
    ELSE LET e == Head(entries)
             r == FromStr(e)
         IN  IF TrimIsEmpty(e) THEN DecodeEntriesAbort(Tail(entries))
             ELSE IF ~r.ok THEN << >>
             ELSE <<r>> \o DecodeEntriesAbort(Tail(entries))

RECURSIVE DecodeEntries(_)
\* .filter(|e| !e.trim().is_empty()).filter_map(|e| from_str(e).ok())
DecodeEntries(entries) ==
    IF entries = << >> THEN << >>
    ELSE LET e == Head(entries)
             r == FromStr(e)
         IN  IF TrimIsEmpty(e) \/ ~r.ok
             THEN DecodeEntries(Tail(entries))
             ELSE <<r>> \o DecodeEntries(Tail(entries))

parse_tracked_bookmarks(output) ==
    FoldTracked(DecodeEntries(Lines(output)), EmptyMap)

\* ------------------------------------------------------------------------
\* jj.rs: the templates and what jj prints for them
\* ------------------------------------------------------------------------
CLOSEST_BOOKMARKS_TEMPLATE == "bookmarks.map(|b| b.normal_target().change_id() ++ \\x1f)"

jujutsu_closest_template == "local_bookmarks.map(name).join(\\x1e) ++ \\n ++ remote_bookmarks.filter(tracked).map(name ++ \\x1f ++ ahead ++ \\x1f ++ behind).join(\\x1e) ++ \\n ++ conflict"

ClosestRevset == "heads(::@ & bookmarks())"

\* b.name() ++ "\x1f" ++ ahead.lower() ++ "\x1f" ++ behind.lower()
TemplateRecord(r) ==
    r.name \o <<US>> \o FormatNat(r.ahead) \o <<US>> \o FormatNat(r.behind)

RECURSIVE MapTemplateRecord(_)
MapTemplateRecord(rs) ==
    IF rs = << >> THEN << >>
    ELSE <<TemplateRecord(Head(rs))>> \o MapTemplateRecord(Tail(rs))

BoolText(b) ==
    IF b THEN <<"t", "r", "u", "e">> ELSE <<"f", "a", "l", "s", "e">>

\* The phase-2 output jj prints for jujutsu_closest_template at a change
\* with the given local bookmarks and tracked remote bookmarks.
Phase2Render(locals, tracked, conflict) ==
    Join(locals, RS) \o <<NL>>
      \o Join(MapTemplateRecord(tracked), RS) \o <<NL>>
      \o BoolText(conflict)

RECURSIVE Phase1Commit(_, _)
\* One commit under CLOSEST_BOOKMARKS_TEMPLATE: change id ++ \x1f for each of
\* its n bookmarks, the list joined by a space.
Phase1Commit(id, n) ==
    IF n = 0 THEN << >>
    ELSE IF n = 1 THEN id \o <<US>>
    ELSE id \o <<US>> \o <<SP>> \o Phase1Commit(id, n - 1)

\* ------------------------------------------------------------------------
\* State
\* ------------------------------------------------------------------------
VARIABLES
    pc,                 \* position in jj init_repo / get_closest_jujutsu_bookmarks_info
    caller,             \* "none", "init_repo" or "direct" (another caller in the crate)
    cwd,                \* init_repo's cwd, a path (sequence of components)
    jjDirs,             \* the directories that contain a .jj directory
    workspace_dir,      \* Option<path> found by init_repo
    ignore_working_copy,
    calls,              \* the jj invocations made so far, each an argument list
    stdout1,            \* Option<stdout> of the phase-1 invocation
    jjAt,               \* what the phase-2 invocation was answered from
    stdout2,            \* Option<stdout> of the phase-2 invocation
    closest,            \* Option<JjClosestBookmarksInfo> returned
    repo,               \* Option<Repo> returned by jj init_repo
    ptEntries,          \* the lines a direct parse_tracked_bookmarks call is given
    ptInput,            \* argument of a direct parse_tracked_bookmarks call
    ptOutput,           \* its result
    gitPc,              \* "start", "open" (Repo built) or "absent"
    gitConfig,          \* current value of core.fsmonitor in the git config
    gitRepo,            \* the git Repo built by init_repo
    gitSeen,            \* the value core.fsmonitor had when init_repo read it
    gitBinary,          \* whether create_command("git") succeeds
    gitCalls,           \* the git invocations made by exec_git
    gitResults          \* what each exec_git call returned: "output" or "none"

jjVars == <<pc, caller, cwd, jjDirs, workspace_dir, ignore_working_copy, calls,
            stdout1, jjAt, stdout2, closest, repo>>
ptVars == <<ptEntries, ptInput, ptOutput>>
gitVars == <<gitPc, gitConfig, gitRepo, gitSeen, gitBinary, gitCalls,
             gitResults>>
vars == <<jjVars, ptVars, gitVars>>

None == [some |-> FALSE]
Some(v) == [some |-> TRUE, val |-> v]

\* ------------------------------------------------------------------------
\* Inputs
\* ------------------------------------------------------------------------
Feat == <<"f", "e", "a", "t">>
Main == <<"m", "a", "i", "n">>
Names == {Feat, Main}

MaxLocal == 2
MaxTracked == 2

SeqsUpTo(S, n) == UNION {[1..k -> S] : k \in 0..n}

\* Line-1 fields: bookmark names, and the empty field.
LocalLists == SeqsUpTo(Names \cup {<< >>}, MaxLocal)

TrackedRecord(n, a, b) == [name |-> n, ahead |-> a, behind |-> b]

TrackedRecords ==
    {TrackedRecord(Feat, 2, 0), TrackedRecord(Main, 0, 1), TrackedRecord(Feat, 1, 3)}

TrackedLists == SeqsUpTo(TrackedRecords, MaxTracked)

\* Directories: the root, a workspace below it.
Root == << >>
Paths == {Root, <<"w">>}

ChangeK == <<"k">>
ChangeMZ == <<"m", "z">>

\* Phase-1 outputs: no bookmarked ancestor, one head with two bookmarks, two
\* heads, and an output whose first field is empty.
Phase1Outputs ==
    { << >>,
      Phase1Commit(ChangeMZ, 2),
      Phase1Commit(ChangeMZ, 1) \o Phase1Commit(ChangeK, 1),
      <<US>> \o Phase1Commit(ChangeK, 1) }

\* ------------------------------------------------------------------------
\* jj.rs: get_closest_jujutsu_bookmarks_info and init_repo
\* ------------------------------------------------------------------------
\* if *ignore_working_copy { "--ignore-working-copy" } else { "" }
IgnoreArg(iwc) == IF iwc THEN <<"--ignore-working-copy">> ELSE << >>

\* The argument list of a jj invocation; an argument is a sequence of
\* characters (fixed arguments are written as one chunk).
JjArgs(revset, iwc, template) ==
    << <<"log">>, <<"--no-graph">>, <<"-r">>, revset, IgnoreArg(iwc),
       <<"-T">>, <<template>> >>

Phase1Args(iwc) == JjArgs(<<ClosestRevset>>, iwc, CLOSEST_BOOKMARKS_TEMPLATE)

Phase2Args(change_id, iwc) == JjArgs(change_id, iwc, jujutsu_closest_template)

\* Mutant of FirstField: the whole output is taken, not its first field.
FirstFieldWhole(out) == out

\* closest_bookmarks_output.split("\x1f").next().unwrap_or("")
FirstField(out) == Split(out, US)[1]

\* lines.next().unwrap_or(""), for the n-th call of next
LineOr(lines, n) == IF Len(lines) >= n THEN lines[n] ELSE << >>

BookmarkInfo(name, map) ==
    IF name \in DOMAIN map
    THEN [name |-> name, remote_ahead |-> map[name][1],
          remote_behind |-> map[name][2], is_tracked |-> TRUE]
    ELSE [name |-> name, remote_ahead |-> 0, remote_behind |-> 0,
          is_tracked |-> FALSE]

RECURSIVE MapBookmarkInfo(_, _)
MapBookmarkInfo(names, map) ==
    IF names = << >> THEN << >>
    ELSE <<BookmarkInfo(Head(names), map)>> \o MapBookmarkInfo(Tail(names), map)

NonEmpty(entry) == entry # << >>

\* Mutant of Assemble: the tracked map decides membership too.
AssembleAll(bookmarks_str, tracked_bookmarks) ==
    MapBookmarkInfo(SelectSeq(Split(bookmarks_str, RS), NonEmpty), tracked_bookmarks)
      \o MapBookmarkInfo(
            SelectSeq(Split(bookmarks_str, RS),
                      LAMBDA n : n \in DOMAIN tracked_bookmarks),
            tracked_bookmarks)

\* bookmarks_str.split('\x1e').filter(|e| !e.is_empty()).map(..).collect()
Assemble(bookmarks_str, tracked_bookmarks) ==
    IF bookmarks_str = << >> THEN << >>
    ELSE MapBookmarkInfo(SelectSeq(Split(bookmarks_str, RS), NonEmpty),
                         tracked_bookmarks)

\* Lines 105-131: decode the phase-2 output.
DecodePhase2(output) ==
    Force(Lines(output),
          LAMBDA lines : Assemble(LineOr(lines, 1),
                                  parse_tracked_bookmarks(LineOr(lines, 2))))

RECURSIVE FindJj(_, _)
\* cwd.ancestors().find(|path| path.join(".jj").is_dir())
FindJj(path, dirs) ==
    IF path \in dirs THEN Some(path)
    ELSE IF path = << >> THEN None
    ELSE FindJj(SubSeq(path, 1, Len(path) - 1), dirs)

\* init_repo(context, cwd): no workspace, or on to the bookmark query with
\* ignore_working_copy = true.
JjInitRepo ==
    /\ pc = "start"
    /\ \E dir \in Paths, dirs \in SUBSET Paths :
         /\ cwd' = dir
         /\ jjDirs' = dirs
         /\ workspace_dir' = FindJj(dir, dirs)
         /\ IF FindJj(dir, dirs).some
            THEN /\ pc' = "phase1"
                 /\ repo' = repo
            ELSE /\ pc' = "done"
                 /\ repo' = None
    /\ caller' = "init_repo"
    /\ ignore_working_copy' = TRUE
    /\ UNCHANGED <<calls, stdout1, jjAt, stdout2, closest, ptVars, gitVars>>

\* get_closest_jujutsu_bookmarks_info called by another module of the crate.
GetClosestCall ==
    /\ pc = "start"
    /\ \E iwc \in BOOLEAN : ignore_working_copy' = iwc
    /\ caller' = "direct"
    /\ pc' = "phase1"
    /\ UNCHANGED <<cwd, jjDirs, workspace_dir, calls, stdout1, jjAt, stdout2,
                   closest, repo, ptVars, gitVars>>

\* Lines 63-78: the phase-1 invocation is made.
Phase1Exec ==
    /\ pc = "phase1"
    /\ calls' = Append(calls, Phase1Args(ignore_working_copy))
    /\ pc' = "wait1"
    /\ UNCHANGED <<caller, cwd, jjDirs, workspace_dir, ignore_working_copy,
                   stdout1, jjAt, stdout2, closest, repo, ptVars, gitVars>>

\* Mutant of Phase1Fail: a failed phase 1 gives an empty list.
Phase1FailEmpty ==
    /\ pc = "wait1"
    /\ closest' = Some(<< >>)
    /\ pc' = "return"
    /\ UNCHANGED <<caller, cwd, jjDirs, workspace_dir, ignore_working_copy,
                   calls, stdout1, jjAt, stdout2, repo, ptVars, gitVars>>

\* Line 79: exec_cmd gave nothing, `?` returns None.
Phase1Fail ==
    /\ pc = "wait1"
    /\ closest' = None
    /\ pc' = "return"
    /\ UNCHANGED <<caller, cwd, jjDirs, workspace_dir, ignore_working_copy,
                   calls, stdout1, jjAt, stdout2, repo, ptVars, gitVars>>

\* Mutant of Phase1Ok: no bookmarked ancestor gives an absent result.
Phase1OkAbsent ==
    /\ pc = "wait1"
    /\ \E out \in Phase1Outputs :
         /\ stdout1' = Some(out)
         /\ IF FirstField(out) # << >>
            THEN /\ pc' = "phase2"
                 /\ closest' = closest
            ELSE /\ pc' = "return"
                 /\ closest' = None
    /\ UNCHANGED <<caller, cwd, jjDirs, workspace_dir, ignore_working_copy,
                   calls, jjAt, stdout2, repo, ptVars, gitVars>>

\* Lines 80-85 and 134: phase 1 answered.
Phase1Ok ==
    /\ pc = "wait1"
    /\ \E out \in Phase1Outputs :
         /\ stdout1' = Some(out)
         /\ IF FirstField(out) # << >>
            THEN /\ pc' = "phase2"
                 /\ closest' = closest
            ELSE /\ pc' = "return"
                 /\ closest' = Some(<< >>)
    /\ UNCHANGED <<caller, cwd, jjDirs, workspace_dir, ignore_working_copy,
                   calls, jjAt, stdout2, repo, ptVars, gitVars>>

\* Lines 86-101: the phase-2 invocation is made.
Phase2Exec ==
    /\ pc = "phase2"
    /\ calls' = Append(calls, Phase2Args(FirstField(stdout1.val),
                                         ignore_working_copy))
    /\ pc' = "wait2"
    /\ UNCHANGED <<caller, cwd, jjDirs, workspace_dir, ignore_working_copy,
                   stdout1, jjAt, stdout2, closest, repo, ptVars, gitVars>>

\* Line 102: exec_cmd gave nothing, `?` returns None.
Phase2Fail ==
    /\ pc = "wait2"
    /\ closest' = None
    /\ pc' = "return"
    /\ UNCHANGED <<caller, cwd, jjDirs, workspace_dir, ignore_working_copy,
                   calls, stdout1, jjAt, stdout2, repo, ptVars, gitVars>>

Phase2Answer(kind, locals, tracked, out) ==
    /\ jjAt' = [kind |-> kind, locals |-> locals, tracked |-> tracked]
    /\ stdout2' = Some(out)
    /\ closest' = Some(DecodePhase2(out))
    /\ pc' = "return"

\* Lines 103-136: jj printed jujutsu_closest_template for the change.
Phase2Ok ==
    /\ pc = "wait2"
    /\ \E locals \in LocalLists, tracked \in TrackedLists, conflict \in BOOLEAN :
         Phase2Answer("template", locals, tracked,
                      Phase2Render(locals, tracked, conflict))
    /\ UNCHANGED <<caller, cwd, jjDirs, workspace_dir, ignore_working_copy,
                   calls, stdout1, repo, ptVars, gitVars>>

\* A tracked record written as the JSON object the decoder reads.
JsonRecord(r) ==
    <<"{", Q>> \o NameKey \o <<Q, ":", Q>> \o r.name \o <<Q, ",", Q>>
      \o AheadKey \o <<Q, ":">> \o FormatNat(r.ahead) \o <<",", Q>>
      \o BehindKey \o <<Q, ":">> \o FormatNat(r.behind) \o <<"}">>

RECURSIVE MapJsonRecord(_)
MapJsonRecord(rs) ==
    IF rs = << >> THEN << >>
    ELSE <<JsonRecord(Head(rs))>> \o MapJsonRecord(Tail(rs))

\* An executor (a mocked command, another jj) whose line 2 carries JSON
\* objects in place of the template's \x1f fields.
Phase2Json(locals, tracked) ==
    Join(locals, RS) \o <<NL>> \o Join(MapJsonRecord(tracked), RS) \o <<NL>>

Phase2OkJson ==
    /\ pc = "wait2"
    /\ \E locals \in LocalLists, tracked \in TrackedLists :
         Phase2Answer("json", locals, tracked, Phase2Json(locals, tracked))
    /\ UNCHANGED <<caller, cwd, jjDirs, workspace_dir, ignore_working_copy,
                   calls, stdout1, repo, ptVars, gitVars>>

\* An output of one line only (no line 2), possibly empty.
Phase2OkShort ==
    /\ pc = "wait2"
    /\ \E locals \in LocalLists :
         Phase2Answer("short", locals, << >>, Join(locals, RS))
    /\ UNCHANGED <<caller, cwd, jjDirs, workspace_dir, ignore_working_copy,
                   calls, stdout1, repo, ptVars, gitVars>>

\* Lines 134-136 and 149-152: the result goes back to the caller; init_repo
\* wraps it in a Repo.
JjReturn ==
    /\ pc = "return"
    /\ pc' = "done"
    /\ repo' = IF caller = "init_repo"
               THEN Some([workdir |-> workspace_dir.val,
                          jj_closest_bookmarks |-> closest])
               ELSE repo
    /\ UNCHANGED <<caller, cwd, jjDirs, workspace_dir, ignore_working_copy,
                   calls, stdout1, jjAt, stdout2, closest, ptVars, gitVars>>

\* ------------------------------------------------------------------------
\* parse_tracked_bookmarks called on its own
\* ------------------------------------------------------------------------
MaxEntries == 3

\* {"ahead":2, "name":"main", "extra":"x", "behind":12} with a leading space
SpacedRecord ==
    <<SP, "{", Q>> \o AheadKey \o <<Q, ":", "2", ",", SP, Q>> \o NameKey
      \o <<Q, ":", Q>> \o Main \o <<Q, ",", SP, Q, "x", Q, ":", Q, "y", Q, ",", Q>>
      \o BehindKey \o <<Q, ":", SP, "1", "2", "}">>

\* ["main",3,0]
ArrayRecord ==
    <<"[", Q>> \o Main \o <<Q, ",", "3", ",", "0", "]">>

\* {"name":"feat","ahead":5}
MissingField ==
    <<"{", Q>> \o NameKey \o <<Q, ":", Q>> \o Feat \o <<Q, ",", Q>>
      \o AheadKey \o <<Q, ":", "5", "}">>

\* {"name":"feat","name":"feat","ahead":5,"behind":5}
DuplicateField ==
    <<"{", Q>> \o NameKey \o <<Q, ":", Q>> \o Feat \o <<Q, ",", Q>>
      \o NameKey \o <<Q, ":", Q>> \o Feat \o <<Q, ",", Q>>
      \o AheadKey \o <<Q, ":", "5", ",", Q>> \o BehindKey \o <<Q, ":", "5", "}">>

WellFormedEntries ==
    { JsonRecord(TrackedRecord(Feat, 1, 3)),
      JsonRecord(TrackedRecord(Feat, 2, 1)),
      JsonRecord(TrackedRecord(Main, 0, 1)),
      SpacedRecord,
      ArrayRecord }

MalformedEntries ==
    { TemplateRecord(TrackedRecord(Feat, 2, 0)),
      <<SP>>,
      MissingField,
      DuplicateField,
      JsonRecord(TrackedRecord(Feat, 9, 9)) \o <<RS>>
        \o JsonRecord(TrackedRecord(Main, 9, 9)) }

PtEntryLists == SeqsUpTo(WellFormedEntries \cup MalformedEntries, MaxEntries)

ParseTracked ==
    /\ ~ptOutput.some
    /\ ptOutput' = Some(parse_tracked_bookmarks(ptInput))
    /\ UNCHANGED <<ptInput, ptEntries, jjVars, gitVars>>

\* ------------------------------------------------------------------------
\* git.rs: init_repo and Repo::exec_git
\* ------------------------------------------------------------------------
MaxGitCalls == 2

ConfigValues == {"unset", "true", "yes", "false", "/usr/bin/fsmonitor-hook"}

\* config_snapshot().boolean("core.fsmonitor")
ConfigBoolean(v) ==
    IF v \in {"true", "yes", "on", "1"} THEN Some(TRUE)
    ELSE IF v \in {"false", "no", "off", "0", ""} THEN Some(FALSE)
    ELSE None

\* .unwrap_or(false)
UnwrapOrFalse(o) == IF o.some THEN o.val ELSE FALSE

GitDir == "/repo/.git"
GitWorkdir == "/repo"
GitCurrentDirs == {"/repo/src"}

\* Argument lists callers hand to exec_git.
GitArgs ==
    { <<"status">>, <<"-c", "core.fsmonitor=true", "diff">> }

\* The repository was not found.
GitInitRepoErr ==
    /\ gitPc = "start"
    /\ gitPc' = "absent"
    /\ UNCHANGED <<gitConfig, gitRepo, gitSeen, gitBinary, gitCalls, gitResults,
                   jjVars, ptVars>>

\* Lines 85-109: the Repo is built from the discovered repository.
GitInitRepo ==
    /\ gitPc = "start"
    /\ \E bare \in BOOLEAN :
         gitRepo' = [path |-> GitDir,
                     workdir |-> IF bare THEN None ELSE Some(GitWorkdir),
                     fs_monitor_value_is_true |->
                         UnwrapOrFalse(ConfigBoolean(gitConfig))]
    /\ gitSeen' = gitConfig
    /\ gitPc' = "open"
    /\ UNCHANGED <<gitConfig, gitBinary, gitCalls, gitResults, jjVars, ptVars>>

\* The user edits core.fsmonitor after the Repo was built.
GitConfigChange ==
    /\ gitPc = "open"
    /\ \E v \in ConfigValues \ {gitConfig} : gitConfig' = v
    /\ UNCHANGED <<gitPc, gitRepo, gitSeen, gitBinary, gitCalls, gitResults,
                   jjVars, ptVars>>

\* Mutant of FsmConfigValue: the setting is read again at each call.
FsmConfigValueLive(r) ==
    IF UnwrapOrFalse(ConfigBoolean(gitConfig))
    THEN "core.fsmonitor=true" ELSE "core.fsmonitor="

FsmConfigValue(r) ==
    IF r.fs_monitor_value_is_true THEN "core.fsmonitor=true" ELSE "core.fsmonitor="

WorkTreeArgs(r) ==
    IF r.workdir.some THEN <<"--work-tree", r.workdir.val>> ELSE << >>

\* Lines 156-170: environment and arguments of the git command.
GitCommand(r, current_dir, git_args) ==
    [env  |-> {<<"GIT_OPTIONAL_LOCKS", "0">>},
     args |-> <<"-C", current_dir, "--git-dir", r.path, "-c", FsmConfigValue(r)>>
                \o WorkTreeArgs(r) \o git_args]

\* exec_git, line 147: create_command failed, nothing is run.
ExecGitNoCommand ==
    /\ gitPc = "open"
    /\ ~gitBinary
    /\ Len(gitResults) < MaxGitCalls
    /\ gitResults' = Append(gitResults, "none")
    /\ UNCHANGED <<gitPc, gitConfig, gitRepo, gitSeen, gitBinary, gitCalls,
                   jjVars, ptVars>>

\* exec_git: the command is built and run; exec_timeout gives its output,
\* or nothing on a failure or a timeout.  Each logged invocation also notes
\* the arguments the caller gave and core.fsmonitor's value at that moment.
ExecGit ==
    /\ gitPc = "open"
    /\ gitBinary
    /\ Len(gitResults) < MaxGitCalls
    /\ \E dir \in GitCurrentDirs, git_args \in GitArgs :
         gitCalls' = Append(gitCalls, [cmd    |-> GitCommand(gitRepo, dir, git_args),
                                       given  |-> git_args,
                                       config |-> gitConfig])
    /\ \E res \in {"output", "none"} : gitResults' = Append(gitResults, res)
    /\ UNCHANGED <<gitPc, gitConfig, gitRepo, gitSeen, gitBinary, jjVars, ptVars>>

\* ------------------------------------------------------------------------
\* Specifications
\* ------------------------------------------------------------------------
JjIdle ==
    /\ pc = "start"
    /\ caller = "none"
    /\ cwd = Root
    /\ jjDirs = {}
    /\ workspace_dir = None
    /\ ignore_working_copy = TRUE
    /\ calls = << >>
    /\ stdout1 = None
    /\ jjAt = [kind |-> "none", locals |-> << >>, tracked |-> << >>]
    /\ stdout2 = None
    /\ closest = None
    /\ repo = None

PtIdle ==
    /\ ptEntries = << >>
    /\ ptInput = << >>
    /\ ptOutput = Some(EmptyMap)

GitIdle ==
    /\ gitPc = "absent"
    /\ gitConfig = "unset"
    /\ gitRepo = [path |-> GitDir, workdir |-> None,
                  fs_monitor_value_is_true |-> FALSE]
    /\ gitSeen = "unset"
    /\ gitBinary = TRUE
    /\ gitCalls = << >>
    /\ gitResults = << >>

\* jj init_repo / get_closest_jujutsu_bookmarks_info
Init == JjIdle /\ PtIdle /\ GitIdle

Next ==
    \/ JjInitRepo
    \/ GetClosestCall
    \/ Phase1Exec
    \/ Phase1Fail
    \/ Phase1Ok
    \/ Phase2Exec
    \/ Phase2Fail
    \/ Phase2Ok
    \/ Phase2OkJson
    \/ Phase2OkShort
    \/ JjReturn

Spec == Init /\ [][Next]_vars

\* parse_tracked_bookmarks on texts of up to MaxEntries lines
InitParse ==
    /\ JjIdle
    /\ GitIdle
    /\ ptEntries \in PtEntryLists
    /\ ptInput = Join(ptEntries, NL)
    /\ ptOutput = None

NextParse == ParseTracked

SpecParse == InitParse /\ [][NextParse]_vars

\* git init_repo and exec_git
InitGit ==
    /\ JjIdle
    /\ PtIdle
    /\ gitPc = "start"
    /\ gitConfig \in ConfigValues
    /\ gitRepo = [path |-> GitDir, workdir |-> None,
                  fs_monitor_value_is_true |-> FALSE]
    /\ gitSeen = "unset"
    /\ gitBinary \in BOOLEAN
    /\ gitCalls = << >>
    /\ gitResults = << >>

NextGit ==
    \/ GitInitRepoErr
    \/ GitInitRepo
    \/ GitConfigChange
    \/ ExecGitNoCommand
    \/ ExecGit

SpecGit == InitGit /\ [][NextGit]_vars

\* ------------------------------------------------------------------------
\* Properties
\* ------------------------------------------------------------------------
Range(f) == {f[i] : i \in DOMAIN f}

\* The n-th line of a text, empty when it has fewer lines.
NthLine(out, n) == LineOr(Lines(out), n)

SetMax(S) == CHOOSE x \in S : \A y \in S : y <= x

\* The text of out before its first \x1f is empty.
EmptyFirst(out) == out = << >> \/ out[1] = US

\* p is the text of out before its first \x1f.
IsTextBeforeFirstUS(p, out) ==
    /\ Len(p) <= Len(out)
    /\ p = SubSeq(out, 1, Len(p))
    /\ \A i \in 1..Len(p) : p[i] # US
    /\ Len(p) = Len(out) \/ out[Len(p) + 1] = US

IsPrefix(p, q) == Len(p) <= Len(q) /\ p = SubSeq(q, 1, Len(p))

\* d is the nearest ancestor of cwd (cwd included) that contains .jj.
IsWorkspaceRoot(d) ==
    /\ d \in jjDirs
    /\ IsPrefix(d, cwd)
    /\ \A e \in jjDirs : IsPrefix(e, cwd) => Len(e) <= Len(d)

Tracked(n, a, b) ==
    [name |-> n, remote_ahead |-> a, remote_behind |-> b, is_tracked |-> TRUE]

\* C1: when jj answers phase 2 in the template's format (line 1 the local
\* names joined by \x1e, line 2 the tracked records name \x1f ahead \x1f
\* behind joined by \x1e), every local name that has a record on line 2 is
\* returned as a tracked BookmarkInfo with that record's counts.
C1_RoundTrip ==
    (pc = "done" /\ jjAt.kind = "template") =>
        /\ closest.some
        /\ \A n \in Range(jjAt.locals) \ {<< >>} :
             \A r \in Range(jjAt.tracked) :
                (r.name = n /\ \A q \in Range(jjAt.tracked) : q.name = n => q = r)
                    => Tracked(n, r.ahead, r.behind) \in Range(closest.val)

\* The records of the input that decode, as a set.
DecodedSet == {r \in {FromStr(e) : e \in Range(ptEntries)} : r.ok}

\* C2: the map parse_tracked_bookmarks returns holds, for each name among the
\* records it decodes, the maximum ahead and the maximum behind over all
\* decoded records of that name, and has no other key.
C2_MergeIsMax ==
    ptOutput.some =>
        /\ DOMAIN ptOutput.val = {r.name : r \in DecodedSet}
        /\ \A n \in DOMAIN ptOutput.val :
             /\ ptOutput.val[n][1] = SetMax({r.ahead : r \in {q \in DecodedSet : q.name = n}})
             /\ ptOutput.val[n][2] = SetMax({r.behind : r \in {q \in DecodedSet : q.name = n}})

\* Records (1,3) and (2,1) for feat have been merged to (2,3).
C2_Witness ==
    /\ ptOutput.some
    /\ ptEntries = <<JsonRecord(TrackedRecord(Feat, 1, 3)),
                     JsonRecord(TrackedRecord(Feat, 2, 1))>>
    /\ ptOutput.val[Feat] = <<2, 3>>

\* C3: after a successful phase 2 the result lists, in line-1 order, one
\* BookmarkInfo per non-empty line-1 field; it is tracked with the map's
\* counts exactly when its name is a key of the decoded tracked map and is
\* untracked with zero counts otherwise; an empty line 1 gives no bookmark.
C3_Assembly ==
    stdout2.some =>
        LET names == SelectSeq(jjAt.locals, NonEmpty)
            map   == parse_tracked_bookmarks(NthLine(stdout2.val, 2))
        IN  /\ closest.some
            /\ Len(closest.val) = Len(names)
            /\ \A i \in 1..Len(names) :
                 LET b == closest.val[i] IN
                 /\ b.name = names[i]
                 /\ b.is_tracked <=> names[i] \in DOMAIN map
                 /\ b.is_tracked =>
                      /\ b.remote_ahead = map[names[i]][1]
                      /\ b.remote_behind = map[names[i]][2]
                 /\ ~b.is_tracked => (b.remote_ahead = 0 /\ b.remote_behind = 0)
            /\ NthLine(stdout2.val, 1) = << >> => closest.val = << >>

\* A result with a tracked and an untracked bookmark, and a tracked record
\* whose name is not a local bookmark.
C3_Witness ==
    /\ pc = "done"
    /\ stdout2.some
    /\ closest.some
    /\ jjAt.locals = <<Main, Feat>>
    /\ closest.val = <<Tracked(Main, 0, 1),
                       [name |-> Feat, remote_ahead |-> 0, remote_behind |-> 0,
                        is_tracked |-> FALSE]>>

\* A tracked record whose name is not on line 1 stays out of the result.
C3_WitnessNotLocal ==
    /\ pc = "done"
    /\ jjAt.kind = "json"
    /\ jjAt.locals = <<Feat>>
    /\ jjAt.tracked = <<TrackedRecord(Main, 0, 1)>>

\* C4: once phase 1 has answered with an empty text before the first \x1f,
\* the result is present and its bookmark list is empty.
C4_EmptyNotAbsent ==
    (stdout1.some /\ EmptyFirst(stdout1.val)) =>
        /\ closest = Some(<< >>)
        /\ (pc = "done" /\ caller = "init_repo") =>
              (repo.some /\ repo.val.jj_closest_bookmarks = Some(<< >>))

\* init_repo has returned after a phase-1 output that starts with \x1f.
C4_Witness ==
    /\ pc = "done"
    /\ caller = "init_repo"
    /\ stdout1 = Some(<<US>> \o Phase1Commit(ChangeK, 1))
    /\ repo.some
    /\ repo.val.jj_closest_bookmarks = Some(<< >>)

\* C5: every git invocation of exec_git carries -c core.fsmonitor=true if
\* init_repo read core.fsmonitor as boolean true and -c core.fsmonitor= in
\* every other case, before the caller's arguments, with
\* GIT_OPTIONAL_LOCKS=0 set.
C5_FsmonitorFrozen ==
    \A i \in 1..Len(gitCalls) :
        LET c    == gitCalls[i]
            args == c.cmd.args
            n    == Len(args) - Len(c.given)
        IN  /\ <<"GIT_OPTIONAL_LOCKS", "0">> \in c.cmd.env
            /\ n >= 6
            /\ args[5] = "-c"
            /\ args[6] = IF gitSeen \in {"true", "yes", "on", "1"}
                         THEN "core.fsmonitor=true"
                         ELSE "core.fsmonitor="
            /\ SubSeq(args, n + 1, Len(args)) = c.given
            /\ \A j \in 1..n : j # 6 => args[j] \notin {"core.fsmonitor=true", "core.fsmonitor="}

\* Two calls made after core.fsmonitor changed from true to a hook path.
C5_Witness ==
    /\ Len(gitCalls) = 2
    /\ gitSeen = "true"
    /\ gitCalls[1].config = "/usr/bin/fsmonitor-hook"
    /\ gitCalls[2].config = "false"
    /\ gitCalls[2].cmd.args[6] = "core.fsmonitor=true"

\* A failed invocation: phase 1 was made and gave no output, or phase 2 was
\* made and gave no output.
JjInvocationFailed ==
    \/ (Len(calls) = 1 /\ ~stdout1.some)
    \/ (Len(calls) = 2 /\ ~stdout2.some)

\* C6: when a workspace root was found and a jj invocation failed, init_repo
\* returns a Repo whose workdir is the workspace root and whose
\* jj_closest_bookmarks is absent.
C6_FailureIsAbsent ==
    (pc = "done" /\ caller = "init_repo" /\ JjInvocationFailed) =>
        /\ repo.some
        /\ IsWorkspaceRoot(repo.val.workdir)
        /\ repo.val.jj_closest_bookmarks = None

\* init_repo has returned after phase 2 failed, from a directory below the
\* workspace root.
C6_Witness ==
    /\ pc = "done"
    /\ caller = "init_repo"
    /\ Len(calls) = 2
    /\ ~stdout2.some
    /\ cwd = <<"w">>
    /\ jjDirs = {Root}
    /\ repo.some
    /\ repo.val.workdir = Root

\* A phase-1 failure seen by init_repo.
C6_WitnessPhase1 ==
    /\ pc = "done"
    /\ caller = "init_repo"
    /\ Len(calls) = 1
    /\ ~stdout1.some
    /\ repo.some

IsWellFormed(e) == e \in WellFormedEntries

TemplateOf(i) ==
    IF i = 1 THEN CLOSEST_BOOKMARKS_TEMPLATE ELSE jujutsu_closest_template

\* C8: every jj invocation is log --no-graph -r <revset>
\* [--ignore-working-copy] -T <template>, and with ignore_working_copy false
\* nothing stands between the revset and -T.
C8_WireForm ==
    \A i \in 1..Len(calls) :
        calls[i] =
            IF ignore_working_copy
            THEN << <<"log">>, <<"--no-graph">>, <<"-r">>, calls[i][4],
                    <<"--ignore-working-copy">>, <<"-T">>, <<TemplateOf(i)>> >>
            ELSE << <<"log">>, <<"--no-graph">>, <<"-r">>, calls[i][4],
                    <<"-T">>, <<TemplateOf(i)>> >>

\* C9: no two BookmarkInfo entries of a returned result have the same name.
C9_UniqueNames ==
    closest.some =>
        \A i, j \in 1..Len(closest.val) :
            i # j => closest.val[i].name # closest.val[j].name

\* C10: at most two invocations are made, the first with the fixed revset;
\* the second only after phase 1 answered with a non-empty text before its
\* first \x1f, and with exactly that text as revset; none when that text is
\* empty, and none when init_repo found no .jj directory.
C10_TwoPhase ==
    /\ Len(calls) <= 2
    /\ Len(calls) >= 1 => calls[1][4] = <<ClosestRevset>>
    /\ Len(calls) = 2 =>
         /\ stdout1.some
         /\ ~EmptyFirst(stdout1.val)
         /\ IsTextBeforeFirstUS(calls[2][4], stdout1.val)
    /\ (stdout1.some /\ EmptyFirst(stdout1.val)) => Len(calls) = 1
    /\ (stdout2.some \/ jjAt.kind # "none") => Len(calls) = 2
    /\ (caller = "init_repo" /\ ~\E d \in jjDirs : IsPrefix(d, cwd)) =>
         (calls = << >> /\ pc = "done")
    /\ pc \in {"start", "phase1"} => calls = << >>

\* Phase 2 ran on the first of two change identifiers.
C10_Witness ==
    /\ pc = "done"
    /\ Len(calls) = 2
    /\ stdout1 = Some(Phase1Commit(ChangeMZ, 1) \o Phase1Commit(ChangeK, 1))
    /\ calls[2][4] = ChangeMZ
    /\ stdout2.some

\* init_repo found no .jj directory and ran nothing.
C10_WitnessNoWorkspace ==
    /\ pc = "done"
    /\ caller = "init_repo"
    /\ cwd = <<"w">>
    /\ jjDirs = {}
    /\ calls = << >>

====
